---- MODULE Spec2Model ----
(***************************************************************************)
(* A model of the 3D chess rules engine: Board (board.py), the six Piece   *)
(* classes and PieceFactory (pieces.py) and is_clear_path (utils.py).      *)
(*                                                                         *)
(* Piece objects live in `heap`: a piece is the index of its record, so    *)
(* two references to the same object are the same index.  0 is None.       *)
(***************************************************************************)
EXTENDS Integers, Sequences, FiniteSets, TLC

VARIABLES
    nx, ny, nz,   \* Board._nx, Board._ny, Board._nz
    heap,         \* the Piece objects created so far: <<[kind, color, position]>>
    pieces,       \* Board._pieces: the dict, a function on the keys it holds
    board,        \* Board._board: the grid array, position -> piece or None (0)
    turn,         \* play_game's turn counter
    over,         \* play_game has left its loop
    ret           \* the last call and what it returned

vars == <<nx, ny, nz, heap, pieces, board, turn, over, ret>>

\* ------------------------------------------------------------------ bounds

\* dimensions of the board of the lifecycle specification Spec
SmallNx == 2
SmallNy == 2
SmallNz == 1
\* dimensions of the board of the rules specification SpecRules
RulesNx == 3
RulesNy == 3
RulesNz == 3
\* length of the one-row board of the specification SpecLine
LineNx == 3
\* how many turns of play_game SpecGame follows: the game it plays ends in the
\* seventeenth
GameTurns == 17
\* how many Piece objects a behaviour of Spec / SpecRules creates
MaxPieces == 2
\* how many keys Spec lets the dict hold
MaxKeys == 3
\* how many turns of play_game SpecDefault follows
MaxTurns == 2

\* Board.__init__ defaults
DefaultNx == 8
DefaultNy == 4
DefaultNz == 4

\* ------------------------------------------------------------- vocabulary

None == 0
Colors == {"W", "B"}
PieceTypes == {"P", "R", "N", "B", "Q", "K"}
\* type tags that are no key of piece_classes
BadTags == {"X", "p", ""}
\* the type tags the next create_piece call is given: any for the first piece,
\* 'P' for the pieces after it (test.py's blocking_piece and enemy_piece)
TypesToCreate == IF Len(heap) = 0 THEN PieceTypes ELSE {"P"}

Abs(n) == IF n < 0 THEN -n ELSE n
Max3(a, b, c) == IF a >= b /\ a >= c THEN a ELSE IF b >= c THEN b ELSE c

\* the positions inside the board
Cells == (0 .. nx - 1) \X (0 .. ny - 1) \X (0 .. nz - 1)
\* one position beyond each face of the board (those of test_is_within_bounds
\* and test_out_of_bounds_move, with their mirror images)
Outside == { <<-1, 0, 0>>, <<nx, 0, 0>>, <<0, -1, 0>>, <<0, ny, 0>>,
             <<0, 0, -1>>, <<0, 0, nz>> }
\* the positions inputs are drawn from
Positions == Cells \cup Outside

\* -------------------------------------------------------------- Board queries

\* an is_within_bounds that takes the far faces of the board for cells
is_within_bounds_inclusive(position) ==
    /\ 0 <= position[1] /\ position[1] <= nx
    /\ 0 <= position[2] /\ position[2] <= ny
    /\ 0 <= position[3] /\ position[3] <= nz

is_within_bounds(position) ==
    /\ 0 <= position[1] /\ position[1] < nx
    /\ 0 <= position[2] /\ position[2] < ny
    /\ 0 <= position[3] /\ position[3] < nz

\* dict.get: None for a key that is absent
get_piece(position) ==
    IF position \in DOMAIN pieces THEN pieces[position] ELSE None

\* ------------------------------------------------------------ is_clear_path

\* Python's dx // steps if dx != 0 else 0, steps > 0 (\div floors, as // does)
StepOf(d, steps) == IF d # 0 THEN d \div steps ELSE 0

\* "the movement is along a straight line or diagonal" as utils.py tests it
ShapeOk(dx, dy, dz) ==
    \/ (dx = 0 \/ dy = 0 \/ dz = 0)
    \/ (Abs(dx) = Abs(dy) /\ Abs(dy) = Abs(dz) /\ Abs(dz) # 0)
    \/ (Abs(dx) = Abs(dy) /\ Abs(dy) # 0 /\ dz = 0)
    \/ (Abs(dx) = Abs(dz) /\ Abs(dz) # 0 /\ dy = 0)
    \/ (Abs(dy) = Abs(dz) /\ Abs(dz) # 0 /\ dx = 0)

\* the cell the loop looks at in iteration step (1 <= step < steps)
Visited(from_pos, to_pos, step) ==
    LET dx == to_pos[1] - from_pos[1]
        dy == to_pos[2] - from_pos[2]
        dz == to_pos[3] - from_pos[3]
        steps == Max3(Abs(dx), Abs(dy), Abs(dz))
    IN  << from_pos[1] + step * StepOf(dx, steps),
           from_pos[2] + step * StepOf(dy, steps),
           from_pos[3] + step * StepOf(dz, steps) >>

\* an is_clear_path whose loop goes on to the destination cell
is_clear_path_to_the_end(from_pos, to_pos) ==
    LET dx == to_pos[1] - from_pos[1]
        dy == to_pos[2] - from_pos[2]
        dz == to_pos[3] - from_pos[3]
        steps == Max3(Abs(dx), Abs(dy), Abs(dz))
    IN  IF steps = 0 THEN TRUE
        ELSE IF ~ShapeOk(dx, dy, dz) THEN FALSE
        ELSE \A step \in 1 .. steps :
                 /\ is_within_bounds(Visited(from_pos, to_pos, step))
                 /\ get_piece(Visited(from_pos, to_pos, step)) = None

is_clear_path(from_pos, to_pos) ==
    LET dx == to_pos[1] - from_pos[1]
        dy == to_pos[2] - from_pos[2]
        dz == to_pos[3] - from_pos[3]
        steps == Max3(Abs(dx), Abs(dy), Abs(dz))
    IN  IF steps = 0 THEN TRUE
        ELSE IF ~ShapeOk(dx, dy, dz) THEN FALSE
        ELSE \A step \in 1 .. steps - 1 :
                 /\ is_within_bounds(Visited(from_pos, to_pos, step))
                 /\ get_piece(Visited(from_pos, to_pos, step)) = None

\* ------------------------------------------------------------------ pieces

\* the colour of the piece on a square (only asked of an occupied square)
ColorAt(position) == heap[get_piece(position)].color

\* a capture rule that does not look at the colour on the destination
EmptyOrAnyone(self, to_position) ==
    get_piece(to_position) = None \/ ColorAt(to_position) \in Colors

\* "not target_piece or target_piece.color != self.color"
EmptyOrEnemy(self, to_position) ==
    \/ get_piece(to_position) = None
    \/ ColorAt(to_position) # heap[self].color

\* a pawn that also takes the enemy piece straight ahead of it and steps
\* diagonally onto empty cells
Pawn_pushing(self, to_position) ==
    LET direction == IF heap[self].color = "W" THEN 1 ELSE -1
        dx == to_position[1] - heap[self].position[1]
        dy == to_position[2] - heap[self].position[2]
        dz == to_position[3] - heap[self].position[3]
    IN  /\ dx = direction
        /\ Abs(dy) <= 1 /\ dz = 0
        /\ EmptyOrEnemy(self, to_position)

\* a pawn that steps and captures backwards as well as forwards
Pawn_retreating(self, to_position) ==
    LET dx == to_position[1] - heap[self].position[1]
        dy == to_position[2] - heap[self].position[2]
        dz == to_position[3] - heap[self].position[3]
    IN  IF Abs(dx) = 1 /\ dy = 0 /\ dz = 0 /\ get_piece(to_position) = None
        THEN TRUE
        ELSE IF Abs(dx) = 1 /\ Abs(dy) = 1 /\ dz = 0
        THEN /\ get_piece(to_position) # None
             /\ ColorAt(to_position) # heap[self].color
        ELSE FALSE

Pawn_is_valid_move(self, to_position) ==
    LET direction == IF heap[self].color = "W" THEN 1 ELSE -1
        dx == to_position[1] - heap[self].position[1]
        dy == to_position[2] - heap[self].position[2]
        dz == to_position[3] - heap[self].position[3]
    IN  IF dx = direction /\ dy = 0 /\ dz = 0 /\ get_piece(to_position) = None
        THEN TRUE
        ELSE IF dx = direction /\ Abs(dy) = 1 /\ dz = 0
        THEN /\ get_piece(to_position) # None
             /\ ColorAt(to_position) # heap[self].color
        ELSE FALSE

\* a rook that does not ask is_clear_path: it slides over the pieces in its way
Rook_jumping(self, to_position) ==
    LET f == heap[self].position
        t == to_position
    IN  IF \/ (f[1] = t[1] /\ f[2] = t[2] /\ f[3] # t[3])
           \/ (f[1] = t[1] /\ f[2] # t[2] /\ f[3] = t[3])
           \/ (f[1] # t[1] /\ f[2] = t[2] /\ f[3] = t[3])
        THEN EmptyOrEnemy(self, t)
        ELSE FALSE

Rook_is_valid_move(self, to_position) ==
    LET f == heap[self].position
        t == to_position
    IN  IF \/ (f[1] = t[1] /\ f[2] = t[2] /\ f[3] # t[3])
           \/ (f[1] = t[1] /\ f[2] # t[2] /\ f[3] = t[3])
           \/ (f[1] # t[1] /\ f[2] = t[2] /\ f[3] = t[3])
        THEN IF is_clear_path(f, t) THEN EmptyOrEnemy(self, t) ELSE FALSE
        ELSE FALSE

\* a knight that never looks at its destination: it lands on its own side too
Knight_landing_anywhere(self, to_position) ==
    LET dx == Abs(to_position[1] - heap[self].position[1])
        dy == Abs(to_position[2] - heap[self].position[2])
        dz == Abs(to_position[3] - heap[self].position[3])
    IN  dx * dx + dy * dy + dz * dz = 5

Knight_is_valid_move(self, to_position) ==
    LET dx == Abs(to_position[1] - heap[self].position[1])
        dy == Abs(to_position[2] - heap[self].position[2])
        dz == Abs(to_position[3] - heap[self].position[3])
    IN  IF dx * dx + dy * dy + dz * dz = 5
        THEN EmptyOrEnemy(self, to_position)
        ELSE FALSE

\* the diagonal test Bishop and Queen share, on the signed deltas
IsDiagonal(dx, dy, dz) ==
    \/ (Abs(dx) = Abs(dy) /\ Abs(dy) = Abs(dz) /\ Abs(dz) # 0)
    \/ (Abs(dx) = Abs(dy) /\ Abs(dy) # 0 /\ dz = 0)
    \/ (Abs(dx) = Abs(dz) /\ Abs(dz) # 0 /\ dy = 0)
    \/ (Abs(dy) = Abs(dz) /\ Abs(dz) # 0 /\ dx = 0)

\* a bishop that does not ask is_clear_path
Bishop_jumping(self, to_position) ==
    LET f == heap[self].position
        t == to_position
    IN  IF IsDiagonal(t[1] - f[1], t[2] - f[2], t[3] - f[3])
        THEN EmptyOrEnemy(self, t)
        ELSE FALSE

Bishop_is_valid_move(self, to_position) ==
    LET f == heap[self].position
        t == to_position
    IN  IF IsDiagonal(t[1] - f[1], t[2] - f[2], t[3] - f[3])
        THEN IF is_clear_path(f, t) THEN EmptyOrEnemy(self, t) ELSE FALSE
        ELSE FALSE

Queen_is_valid_move(self, to_position) ==
    LET f == heap[self].position
        t == to_position
    IN  IF \/ (f[1] = t[1] \/ f[2] = t[2] \/ f[3] = t[3])
           \/ IsDiagonal(t[1] - f[1], t[2] - f[2], t[3] - f[3])
        THEN IF is_clear_path(f, t) THEN EmptyOrEnemy(self, t) ELSE FALSE
        ELSE FALSE

\* a king that steps along one axis only
King_orthogonal(self, to_position) ==
    LET dx == Abs(to_position[1] - heap[self].position[1])
        dy == Abs(to_position[2] - heap[self].position[2])
        dz == Abs(to_position[3] - heap[self].position[3])
    IN  IF dx + dy + dz = 1
        THEN EmptyOrEnemy(self, to_position)
        ELSE FALSE

King_is_valid_move(self, to_position) ==
    LET dx == Abs(to_position[1] - heap[self].position[1])
        dy == Abs(to_position[2] - heap[self].position[2])
        dz == Abs(to_position[3] - heap[self].position[3])
    IN  IF Max3(dx, dy, dz) = 1
        THEN EmptyOrEnemy(self, to_position)
        ELSE FALSE

\* the subclass method the piece's class selects
KindRule(self, to_position) ==
    CASE heap[self].kind = "P" -> Pawn_is_valid_move(self, to_position)
      [] heap[self].kind = "R" -> Rook_is_valid_move(self, to_position)
      [] heap[self].kind = "N" -> Knight_is_valid_move(self, to_position)
      [] heap[self].kind = "B" -> Bishop_is_valid_move(self, to_position)
      [] heap[self].kind = "Q" -> Queen_is_valid_move(self, to_position)
      [] heap[self].kind = "K" -> King_is_valid_move(self, to_position)

\* is_valid_move without the bounds check of pieces.py:38
is_valid_move_unbounded(self, to_position) ==
    IF heap[self].position = to_position THEN FALSE
    ELSE KindRule(self, to_position)

\* Piece.is_valid_move: the two shared checks, then the subclass rule
is_valid_move(self, to_position) ==
    IF ~is_within_bounds(to_position) THEN FALSE
    ELSE IF heap[self].position = to_position THEN FALSE
    ELSE KindRule(self, to_position)

\* a factory that raises for no tag
create_piece_never_raises(piece_type) == FALSE

\* PieceFactory.create_piece raises ValueError: piece_classes.get finds no class
create_piece_raises(piece_type) == piece_type \notin PieceTypes

\* PieceFactory.create_piece for a known type tag: the new object
create_piece(piece_type, color, position) ==
    [kind |-> piece_type, color |-> color, position |-> position]

\* ------------------------------------------------------------ Board updates

\* a set_piece that clears the grid cell and leaves the dict's key in place
set_piece_keeping(b, position, piece) ==
    IF is_within_bounds(position)
    THEN IF piece # None
         THEN [pieces |-> [p \in DOMAIN b.pieces \cup {position} |->
                              IF p = position THEN piece ELSE b.pieces[p]],
               board  |-> [b.board EXCEPT ![position] = piece]]
         ELSE [pieces |-> b.pieces,
               board  |-> [b.board EXCEPT ![position] = None]]
    ELSE b

\* a set_piece that wraps an out-of-bounds index round, as a negative index of
\* an array does, instead of refusing it
set_piece_wrapping(b, position, piece) ==
    LET q == <<position[1] % nx, position[2] % ny, position[3] % nz>>
    IN  IF piece # None
        THEN [pieces |-> [p \in DOMAIN b.pieces \cup {q} |->
                             IF p = q THEN piece ELSE b.pieces[p]],
              board  |-> [b.board EXCEPT ![q] = piece]]
        ELSE [pieces |-> [p \in DOMAIN b.pieces \ {q} |-> b.pieces[p]],
              board  |-> [b.board EXCEPT ![q] = None]]

\* a set_piece that writes the dict without the bounds check of board.py:147
set_piece_unbounded(b, position, piece) ==
    IF piece # None
    THEN [pieces |-> [p \in DOMAIN b.pieces \cup {position} |->
                         IF p = position THEN piece ELSE b.pieces[p]],
          board  |-> [p \in DOMAIN b.board |->
                         IF p = position THEN piece ELSE b.board[p]]]
    ELSE [pieces |-> [p \in DOMAIN b.pieces \ {position} |-> b.pieces[p]],
          board  |-> [p \in DOMAIN b.board |->
                         IF p = position THEN None ELSE b.board[p]]]

\* a set_piece that writes the dict and leaves the grid alone
set_piece_dict_only(b, position, piece) ==
    IF is_within_bounds(position)
    THEN IF piece # None
         THEN [pieces |-> [p \in DOMAIN b.pieces \cup {position} |->
                              IF p = position THEN piece ELSE b.pieces[p]],
               board  |-> b.board]
         ELSE [pieces |-> [p \in DOMAIN b.pieces \ {position} |-> b.pieces[p]],
               board  |-> b.board]
    ELSE b

\* Board.set_piece on the pair of containers b = [pieces, board]
set_piece(b, position, piece) ==
    IF is_within_bounds(position)
    THEN IF piece # None
         THEN [pieces |-> [p \in DOMAIN b.pieces \cup {position} |->
                              IF p = position THEN piece ELSE b.pieces[p]],
               board  |-> [b.board EXCEPT ![position] = piece]]
         ELSE [pieces |-> [p \in DOMAIN b.pieces \ {position} |-> b.pieces[p]],
               board  |-> [b.board EXCEPT ![position] = None]]
    ELSE b

Containers == [pieces |-> pieces, board |-> board]

\* a move_piece that leaves the piece under its old key as well
move_piece_copying(from_pos, to_pos) ==
    LET piece == get_piece(from_pos)
    IN  IF piece # None /\ is_valid_move(piece, to_pos)
        THEN LET b == set_piece(Containers, to_pos, piece)
             IN  [ok |-> TRUE, pieces |-> b.pieces, board |-> b.board,
                  heap |-> [heap EXCEPT ![piece].position = to_pos]]
        ELSE [ok |-> FALSE, pieces |-> pieces, board |-> board, heap |-> heap]

\* a move_piece that does not write the piece's cached position
move_piece_forgetful(from_pos, to_pos) ==
    LET piece == get_piece(from_pos)
    IN  IF piece # None /\ is_valid_move(piece, to_pos)
        THEN LET b == set_piece(set_piece(Containers, to_pos, piece), from_pos, None)
             IN  [ok |-> TRUE, pieces |-> b.pieces, board |-> b.board, heap |-> heap]
        ELSE [ok |-> FALSE, pieces |-> pieces, board |-> board, heap |-> heap]

\* a move_piece that refuses to capture
move_piece_onto_empty(from_pos, to_pos) ==
    LET piece == get_piece(from_pos)
    IN  IF piece # None /\ is_valid_move(piece, to_pos) /\ get_piece(to_pos) = None
        THEN LET b == set_piece(set_piece(Containers, to_pos, piece), from_pos, None)
             IN  [ok |-> TRUE, pieces |-> b.pieces, board |-> b.board,
                  heap |-> [heap EXCEPT ![piece].position = to_pos]]
        ELSE [ok |-> FALSE, pieces |-> pieces, board |-> board, heap |-> heap]

\* Board.move_piece: what it returns and the state it leaves
move_piece(from_pos, to_pos) ==
    LET piece == get_piece(from_pos)
    IN  IF piece # None /\ is_valid_move(piece, to_pos)
        THEN LET b == set_piece(set_piece(Containers, to_pos, piece), from_pos, None)
             IN  [ok |-> TRUE, pieces |-> b.pieces, board |-> b.board,
                  heap |-> [heap EXCEPT ![piece].position = to_pos]]
        ELSE [ok |-> FALSE, pieces |-> pieces, board |-> board, heap |-> heap]

\* an is_game_over that looks for a King of any colour
is_game_over_colourless(st, opponent_color) ==
    ~ \E p \in DOMAIN st.pieces : st.heap[st.pieces[p]].kind = "K"

\* an is_game_over that ends the game when the first of the two kings is lost
is_game_over_one_king_lost(st, opponent_color) ==
    Cardinality({p \in DOMAIN st.pieces :
                     /\ st.heap[st.pieces[p]].color = opponent_color
                     /\ st.heap[st.pieces[p]].kind = "K"}) < 2

\* Board.is_game_over: no King of that colour among the dict's values
\* (asked of st = [heap, pieces, ...], the state a call has left)
is_game_over(st, opponent_color) ==
    ~ \E p \in DOMAIN st.pieces :
          /\ st.heap[st.pieces[p]].color = opponent_color
          /\ st.heap[st.pieces[p]].kind = "K"

\* --------------------------------------------------------- initialize_board

\* the create_piece / set_piece calls of _place_pieces, in the order it makes them
Placements(color, start_x) ==
    LET direction == IF color = "W" THEN 1 ELSE -1
        pawn_row == start_x + direction
        center_y == ny \div 2
        center_z == nz \div 2
    IN  [i \in 1 .. ny * nz |->
            <<"P", <<pawn_row, (i - 1) \div nz, (i - 1) % nz>> >>]
        \o << <<"R", <<start_x, 0, 0>> >>,
              <<"R", <<start_x, 0, nz - 1>> >>,
              <<"R", <<start_x, ny - 1, 0>> >>,
              <<"R", <<start_x, ny - 1, nz - 1>> >> >>
        \o << <<"N", <<start_x, 0, 1>> >>,
              <<"N", <<start_x, 0, nz - 2>> >>,
              <<"N", <<start_x, ny - 1, 1>> >>,
              <<"N", <<start_x, ny - 1, nz - 2>> >> >>
        \o << <<"B", <<start_x, 0, 2>> >>,
              <<"B", <<start_x, 0, nz - 3>> >>,
              <<"B", <<start_x, ny - 1, 2>> >>,
              <<"B", <<start_x, ny - 1, nz - 3>> >> >>
        \o << <<"Q", <<start_x, center_y - 1, center_z - 1>> >>,
              <<"Q", <<start_x, center_y - 1, center_z>> >> >>
        \o << <<"K", <<start_x, center_y, center_z - 1>> >>,
              <<"K", <<start_x, center_y, center_z>> >> >>

\* one pass of a placement loop: create_piece, then set_piece
place_one(st, color, item) ==
    LET h == Append(st.heap, create_piece(item[1], color, item[2]))
        b == set_piece([pieces |-> st.pieces, board |-> st.board], item[2], Len(h))
    IN  [heap |-> h, pieces |-> b.pieces, board |-> b.board]

\* the placement loops of _place_pieces from call i on, applied in order to
\* st = [heap, pieces, board]  (binding s to the one element of a set makes TLC
\* compute each state before it goes on to the next call)
RECURSIVE place_pieces(_, _, _, _)
place_pieces(st, color, todo, i) ==
    IF i > Len(todo) THEN st
    ELSE CHOOSE r \in { place_pieces(s, color, todo, i + 1) :
                            s \in {place_one(st, color, todo[i])} } : TRUE

\* Board.initialize_board: white from x = 0, then black from x = nx - 1
initialize_board(st) ==
    CHOOSE r \in { place_pieces(s, "B", Placements("B", nx - 1), 1) :
                       s \in {place_pieces(st, "W", Placements("W", 0), 1)} } : TRUE

\* ------------------------------------------------------------------ actions

Ret(op, ok) == [op |-> op, ok |-> ok]

EmptyDict == [p \in {} |-> None]

\* piece = factory.create_piece(t, c, p), kept by the caller; ret.ok is FALSE
\* when the call raised and gave the caller nothing
CreatePiece(piece_type, color, position) ==
    /\ Len(heap) < MaxPieces
    /\ IF create_piece_raises(piece_type)
       THEN /\ heap' = heap
            /\ ret' = Ret("create_piece", FALSE)
       ELSE /\ heap' = Append(heap, create_piece(piece_type, color, position))
            /\ ret' = Ret("create_piece", TRUE)
    /\ UNCHANGED <<nx, ny, nz, pieces, board, turn, over>>

\* board.set_piece(position, piece), piece an object the caller holds, or None
\* (it returns nothing: ret.ok is FALSE when it logs the out-of-bounds warning)
SetPiece(position, piece) ==
    LET b == set_piece(Containers, position, piece)
    IN  /\ pieces' = b.pieces
        /\ board' = b.board
        /\ ret' = Ret("set_piece", is_within_bounds(position))
        /\ UNCHANGED <<nx, ny, nz, heap, turn, over>>

\* board.set_piece(p, factory.create_piece(t, c, p)), as test.py:326 writes it
Place(piece_type, color, position) ==
    /\ Len(heap) < MaxPieces
    /\ LET h == Append(heap, create_piece(piece_type, color, position))
           b == set_piece(Containers, position, Len(h))
       IN  /\ heap' = h
           /\ pieces' = b.pieces
           /\ board' = b.board
    /\ ret' = Ret("set_piece", TRUE)
    /\ UNCHANGED <<nx, ny, nz, turn, over>>

\* board.move_piece(from_pos, to_pos)
MovePiece(from_pos, to_pos) ==
    LET r == move_piece(from_pos, to_pos)
    IN  /\ pieces' = r.pieces
        /\ board' = r.board
        /\ heap' = r.heap
        /\ ret' = Ret("move_piece", r.ok)
        /\ UNCHANGED <<nx, ny, nz, turn, over>>

\* ---- the queries, called on their own: they assign nothing

\* board.is_within_bounds(position)
IsWithinBounds(position) ==
    /\ ret' = Ret("is_within_bounds", is_within_bounds(position))
    /\ UNCHANGED <<nx, ny, nz, heap, pieces, board, turn, over>>

\* board.get_piece(position); ret.ok: it returned a piece, not None
GetPiece(position) ==
    /\ ret' = Ret("get_piece", get_piece(position) # None)
    /\ UNCHANGED <<nx, ny, nz, heap, pieces, board, turn, over>>

\* an is_valid_move that caches the destination it has accepted in the piece
IsValidMove_caching(piece, to_position) ==
    /\ ret' = Ret("is_valid_move", is_valid_move(piece, to_position))
    /\ heap' = IF is_valid_move(piece, to_position)
               THEN [heap EXCEPT ![piece].position = to_position]
               ELSE heap
    /\ UNCHANGED <<nx, ny, nz, pieces, board, turn, over>>

\* piece.is_valid_move(to_position, board), piece an object the caller holds
IsValidMove(piece, to_position) ==
    /\ ret' = Ret("is_valid_move", is_valid_move(piece, to_position))
    /\ UNCHANGED <<nx, ny, nz, heap, pieces, board, turn, over>>

\* is_clear_path(board, from_pos, to_pos)
IsClearPath(from_pos, to_pos) ==
    /\ ret' = Ret("is_clear_path", is_clear_path(from_pos, to_pos))
    /\ UNCHANGED <<nx, ny, nz, heap, pieces, board, turn, over>>

\* board.is_game_over(opponent_color)
IsGameOver(opponent_color) ==
    /\ ret' = Ret("is_game_over",
                  is_game_over([heap |-> heap, pieces |-> pieces], opponent_color))
    /\ UNCHANGED <<nx, ny, nz, heap, pieces, board, turn, over>>

\* board.initialize_board()
InitializeBoard ==
    /\ heap = <<>>
    /\ LET st == initialize_board([heap |-> heap, pieces |-> pieces, board |-> board])
       IN  /\ heap' = st.heap
           /\ pieces' = st.pieces
           /\ board' = st.board
    /\ ret' = Ret("initialize_board", TRUE)
    /\ UNCHANGED <<nx, ny, nz, turn, over>>

\* a make_move that does not ask whose piece it is
MakeMove_any_colour(from_pos, to_pos) ==
    LET players == <<"W", "B">>
        opponent == players[((turn + 1) % 2) + 1]
        piece == get_piece(from_pos)
        r == move_piece(from_pos, to_pos)
        moved == /\ piece # None
                 /\ is_valid_move(piece, to_pos)
                 /\ r.ok
    IN  /\ ~over
        /\ IF moved
           THEN /\ pieces' = r.pieces
                /\ board' = r.board
                /\ heap' = r.heap
                /\ IF is_game_over(r, opponent)
                   THEN over' = TRUE /\ turn' = turn
                   ELSE over' = FALSE /\ turn' = turn + 1
           ELSE UNCHANGED <<pieces, board, heap, turn, over>>
        /\ ret' = Ret("make_move", moved)
        /\ UNCHANGED <<nx, ny, nz>>

\* one pass of make_move's loop on well-formed input and, when it breaks out,
\* the rest of play_game's loop body: is_game_over(opponent), then turn += 1
MakeMove(from_pos, to_pos) ==
    LET players == <<"W", "B">>
        current_player == players[(turn % 2) + 1]
        opponent == players[((turn + 1) % 2) + 1]
        piece == get_piece(from_pos)
        r == move_piece(from_pos, to_pos)
        moved == /\ piece # None
                 /\ heap[piece].color = current_player
                 /\ is_valid_move(piece, to_pos)
                 /\ r.ok
    IN  /\ ~over
        /\ IF moved
           THEN /\ pieces' = r.pieces
                /\ board' = r.board
                /\ heap' = r.heap
                /\ IF is_game_over(r, opponent)
                   THEN over' = TRUE /\ turn' = turn
                   ELSE over' = FALSE /\ turn' = turn + 1
           ELSE UNCHANGED <<pieces, board, heap, turn, over>>
        /\ ret' = Ret("make_move", moved)
        /\ UNCHANGED <<nx, ny, nz>>

\* ---- the text make_move reads

\* a line of input, split at its commas: each field is the text of an integer
\* or is not
Field(n) == [int |-> TRUE, value |-> n]
Junk == [int |-> FALSE, value |-> 0]

\* lines that parse_move refuses: two fields, four fields, a field that is no
\* integer
Malformed == { <<Field(0), Field(0)>>,
               <<Field(0), Field(0), Field(0), Field(0)>>,
               <<Junk, Field(0), Field(0)>>,
               <<Field(1), Field(2), Junk>> }
\* the line "x,y,z" of a position
Line(position) == <<Field(position[1]), Field(position[2]), Field(position[3])>>

\* parse_move raises ValueError: the unpacking into three fails, or an int() does
parse_move_raises(move_str) ==
    \/ Len(move_str) # 3
    \/ \E i \in 1 .. Len(move_str) : ~move_str[i].int
\* parse_move on a line it accepts
parse_move(move_str) == <<move_str[1].value, move_str[2].value, move_str[3].value>>

\* one pass of make_move's loop on input that parse_move refuses: the
\* ValueError is printed and the loop goes round, the same player to move
MakeMoveMalformed(from_str, to_str) ==
    /\ ~over
    /\ parse_move_raises(from_str) \/ parse_move_raises(to_str)
    /\ ret' = Ret("parse_move", FALSE)
    /\ UNCHANGED <<nx, ny, nz, heap, pieces, board, turn, over>>

\* ------------------------------------------------------------ specifications

\* the test fixture (test.py setUp): a board of the given size, emptied
Fixture(x, y, z) ==
    /\ nx = x /\ ny = y /\ nz = z
    /\ heap = <<>>
    /\ pieces = EmptyDict
    /\ board = [p \in (0 .. x - 1) \X (0 .. y - 1) \X (0 .. z - 1) |-> None]
    /\ turn = 0
    /\ over = FALSE
    /\ ret = Ret("setUp", TRUE)

\* the board's lifecycle: any pieces, anywhere, then moves
Init == Fixture(SmallNx, SmallNy, SmallNz)

Create == \E t \in TypesToCreate \cup BadTags, c \in Colors, p \in Cells :
              CreatePiece(t, c, p)
Set == \E p \in Positions, piece \in 0 .. Len(heap) :
           /\ Cardinality(DOMAIN pieces \cup {p}) <= MaxKeys
           /\ SetPiece(p, piece)
\* move_piece never reads to_pos when from_pos holds no piece (the `and` of
\* board.py:120 stops at `piece`), so one destination stands for them all there
Move == \E f \in Positions :
            \E t \in IF get_piece(f) = None THEN {f} ELSE Positions : MovePiece(f, t)

Next == Create \/ Set \/ Move

Spec == Init /\ [][Next]_vars

\* the lifecycle on a single row of cells, long enough for a cell to lie between
\* two others
InitLine == Fixture(LineNx, 1, 1)

SpecLine == InitLine /\ [][Next]_vars

\* the movement rules: pieces placed where they say they are, then moves
InitRules == Fixture(RulesNx, RulesNy, RulesNz)

PlaceNew == \E t \in TypesToCreate, c \in Colors, p \in Cells : Place(t, c, p)

NextRules == PlaceNew \/ Move

SpecRules == InitRules /\ [][NextRules]_vars

\* the queries: pieces placed where they say they are, moves, and between them
\* calls of the five query operations
InitQueries == Fixture(SmallNx, SmallNy, SmallNz)

AskWithinBounds == \E p \in Positions : IsWithinBounds(p)
AskPiece == \E p \in Positions : GetPiece(p)
AskValidMove == \E piece \in 1 .. Len(heap), t \in Positions : IsValidMove(piece, t)
AskClearPath == \E f \in Cells, t \in Positions : IsClearPath(f, t)
AskGameOver == \E c \in Colors : IsGameOver(c)

NextQueries ==
    \/ PlaceNew
    \/ Move
    \/ AskWithinBounds
    \/ AskPiece
    \/ AskValidMove
    \/ AskClearPath
    \/ AskGameOver

SpecQueries == InitQueries /\ [][NextQueries]_vars

\* the default board: test_initialize_board's call on the emptied fixture, then
\* play_game's loop on the board initialize_board has populated
InitDefault == Fixture(DefaultNx, DefaultNy, DefaultNz)

\* make_move reads to_pos only once the source holds a piece of the player to move
Play == /\ heap # <<>>
        /\ turn < MaxTurns
        /\ \E f \in Positions :
              \E t \in IF get_piece(f) = None THEN {f} ELSE Positions :
                  MakeMove(parse_move(Line(f)), parse_move(Line(t)))

\* the lines a player may type: those of the positions, and malformed ones
Lines == {Line(p) : p \in Positions} \cup Malformed

Mistype == /\ heap # <<>>
           /\ turn < MaxTurns
           /\ \E from_str \in Lines, to_str \in Lines : MakeMoveMalformed(from_str, to_str)

NextDefault == InitializeBoard \/ Play \/ Mistype

SpecDefault == InitDefault /\ [][NextDefault]_vars

\* one game on the default board, from initialize_board to the capture of both
\* black kings: the players type the moves of this game in any order, and
\* malformed lines
WhiteMoves ==
    { << <<1, 2, 1>>, <<2, 2, 1>> >>,    \* the pawn before the king steps up
      << <<0, 2, 1>>, <<1, 2, 1>> >>,    \* the king walks to the far end
      << <<1, 2, 1>>, <<2, 1, 1>> >>,
      << <<2, 1, 1>>, <<3, 2, 1>> >>,
      << <<3, 2, 1>>, <<4, 2, 1>> >>,
      << <<4, 2, 1>>, <<5, 2, 1>> >>,
      << <<5, 2, 1>>, <<6, 2, 1>> >>,    \* takes a pawn
      << <<6, 2, 1>>, <<7, 2, 1>> >>,    \* takes a king
      << <<7, 2, 1>>, <<7, 2, 2>> >> }   \* takes the other king
BlackMoves ==
    { << <<6 - i, 0, z>>, <<5 - i, 0, z>> >> : i \in 0 .. 3, z \in {0, 3} }
GameMoves == WhiteMoves \cup BlackMoves

InitGame == Fixture(DefaultNx, DefaultNy, DefaultNz)

PlayGame == /\ heap # <<>>
            /\ turn < GameTurns
            /\ \E m \in GameMoves :
                  MakeMove(parse_move(Line(m[1])), parse_move(Line(m[2])))

MistypeGame ==
    /\ heap # <<>>
    /\ turn < GameTurns
    /\ \E from_str \in Malformed \cup {Line(<<1, 2, 1>>)}, to_str \in Malformed :
           MakeMoveMalformed(from_str, to_str)

NextGame == InitializeBoard \/ PlayGame \/ MistypeGame

SpecGame == InitGame /\ [][NextGame]_vars

\* ------------------------------------------------------------------- claims

\* the pieces' cached positions, by object
PositionsOf(h) == [i \in DOMAIN h |-> h[i].position]

\* C1: in every reachable board state a move_piece(from, to) call returns
\* False and leaves the dict, the grid and every piece's cached position as they
\* were whenever from holds no piece, to = from, to is out of bounds, or the
\* piece's is_valid_move rejects to
C1_FailedMoveChangesNothing ==
    \A f \in Positions, t \in Positions :
        ( \/ get_piece(f) = None
          \/ t = f
          \/ ~is_within_bounds(t)
          \/ ~is_valid_move(get_piece(f), t) )
        => /\ move_piece(f, t).ok = FALSE
           /\ move_piece(f, t).pieces = pieces
           /\ move_piece(f, t).board = board
           /\ PositionsOf(move_piece(f, t).heap) = PositionsOf(heap)

\* a move_piece call has just failed on a board that holds a piece whose cached
\* position is not its key, so that to = from is not what is_valid_move compares
C1_Witness ==
    /\ ret = Ret("move_piece", FALSE)
    /\ \E p \in DOMAIN pieces : heap[pieces[p]].position # p

\* C2: whenever move_piece(from, to) returns True, afterwards get_piece(from)
\* is None, get_piece(to) is the piece that stood at from, the piece that stood
\* at to (if any) is under no key of the dict, the moved piece's cached position
\* is to, and every position other than from and to holds what it held
C2_SuccessfulMove ==
    \A f \in Positions, t \in Positions :
        LET r == move_piece(f, t)
            piece == get_piece(f)
            previous == get_piece(t)
        IN  r.ok =>
              /\ f \notin DOMAIN r.pieces
              /\ t \in DOMAIN r.pieces /\ r.pieces[t] = piece
              /\ previous # None => \A p \in DOMAIN r.pieces : r.pieces[p] # previous
              /\ r.heap[piece].position = t
              /\ \A p \in Positions \ {f, t} :
                     /\ (p \in DOMAIN r.pieces) = (p \in DOMAIN pieces)
                     /\ p \in DOMAIN pieces => r.pieces[p] = pieces[p]

\* C3: in every state that set_piece and move_piece calls reach from the
\* board's creation, each piece the dict stores has a cached position equal to
\* the key it is stored under
C3_PositionIsKey ==
    \A p \in DOMAIN pieces : heap[pieces[p]].position = p

\* ---- vocabulary of the movement rules, on deltas and cells

Delta(f, t) == <<t[1] - f[1], t[2] - f[2], t[3] - f[3]>>
Sign(n) == IF n > 0 THEN 1 ELSE IF n < 0 THEN -1 ELSE 0
NonZeroAxes(d) == {i \in 1 .. 3 : d[i] # 0}
\* all the non-zero axis deltas have the same absolute value
SameMagnitude(d) == \A i \in NonZeroAxes(d), j \in NonZeroAxes(d) : Abs(d[i]) = Abs(d[j])
OneAxis(d) == Cardinality(NonZeroAxes(d)) = 1
\* two axes (planar) or three (space) with equal non-zero absolute deltas
Diagonal(d) == Cardinality(NonZeroAxes(d)) >= 2 /\ SameMagnitude(d)
\* the cells strictly between f and t on the line or diagonal through them
Between(f, t) ==
    LET d == Delta(f, t)
    IN  { <<f[1] + k * Sign(d[1]), f[2] + k * Sign(d[2]), f[3] + k * Sign(d[3])>> :
              k \in 1 .. Max3(Abs(d[1]), Abs(d[2]), Abs(d[3])) - 1 }
\* the destination is empty or holds a piece that is not of this colour
FreeFor(color, t) == t \notin DOMAIN pieces \/ heap[pieces[t]].color # color
\* the destination holds a piece of the other colour
EnemyOf(color, t) == t \in DOMAIN pieces /\ heap[pieces[t]].color # color
\* the keys under which the dict stores a piece of this class
Stored(kind) == {p \in DOMAIN pieces : heap[pieces[p]].kind = kind}
\* what is_valid_move would answer were the piece of class Rook, or Bishop
AsRook(self, t) ==
    IF ~is_within_bounds(t) THEN FALSE
    ELSE IF heap[self].position = t THEN FALSE
    ELSE Rook_is_valid_move(self, t)
AsBishop(self, t) ==
    IF ~is_within_bounds(t) THEN FALSE
    ELSE IF heap[self].position = t THEN FALSE
    ELSE Bishop_is_valid_move(self, t)

\* C4: a queen's is_valid_move accepts a destination exactly when a rook or a
\* bishop of its colour, standing where it stands on the same board, would; so
\* on an otherwise empty board it rejects the delta (2, 1, 0)
C4_QueenIsRookOrBishop ==
    \A p \in Stored("Q"), t \in Positions :
        is_valid_move(pieces[p], t) <=> (AsRook(pieces[p], t) \/ AsBishop(pieces[p], t))

\* C5: a pawn's is_valid_move accepts an in-bounds destination iff, dir being
\* +1 for white and -1 for black, the delta is (dir, 0, 0) and the destination is
\* empty, or dx = dir, exactly one of |dy| and |dz| is 1 and the other 0, and the
\* destination holds a piece of the opposite colour
C5_PawnRule ==
    \A p \in Stored("P"), t \in Cells :
        LET self == pieces[p]
            dir == IF heap[self].color = "W" THEN 1 ELSE -1
            d == Delta(heap[self].position, t)
        IN  is_valid_move(self, t) <=>
              \/ d = <<dir, 0, 0>> /\ t \notin DOMAIN pieces
              \/ /\ d[1] = dir
                 /\ \/ (Abs(d[2]) = 1 /\ d[3] = 0)
                    \/ (d[2] = 0 /\ Abs(d[3]) = 1)
                 /\ EnemyOf(heap[self].color, t)

\* how many pieces of a class and colour the dict stores
CountOf(kind, color) ==
    Cardinality({p \in DOMAIN pieces :
                     heap[pieces[p]].kind = kind /\ heap[pieces[p]].color = color})

\* C6: initialize_board on the empty default 8x4x4 board puts every piece it
\* creates on a cell of its own, so the dict then holds 2 * (ny * nz + 16) = 64
\* pieces: per colour ny * nz pawns, 4 rooks, 4 knights, 4 bishops, 2 queens and
\* 2 kings
C6_EveryPieceOnItsOwnCell ==
    ret.op = "initialize_board" =>
        /\ Cardinality(DOMAIN pieces) = Len(heap)
        /\ Cardinality(DOMAIN pieces) = 2 * (ny * nz + 16)
        /\ Cardinality(DOMAIN pieces) = 64
        /\ \A c \in Colors :
               /\ CountOf("P", c) = ny * nz
               /\ CountOf("R", c) = 4
               /\ CountOf("N", c) = 4
               /\ CountOf("B", c) = 4
               /\ CountOf("Q", c) = 2
               /\ CountOf("K", c) = 2

\* C7: is_clear_path(from, to) returns False whenever the non-zero axis deltas
\* of to - from do not all have the same absolute value, as for
\* (0,0,0) -> (2,1,0) on an empty board
C7_IrregularDeltaRejected ==
    \A f \in Positions, t \in Positions :
        ~SameMagnitude(Delta(f, t)) => is_clear_path(f, t) = FALSE

\* C8: a rook's is_valid_move accepts an in-bounds destination iff exactly one
\* axis delta is non-zero, every cell strictly between origin and destination
\* is unoccupied, and the destination is empty or holds a piece of the opposite
\* colour
C8_RookRule ==
    \A p \in Stored("R"), t \in Cells :
        LET self == pieces[p]
            origin == heap[self].position
        IN  is_valid_move(self, t) <=>
              /\ OneAxis(Delta(origin, t))
              /\ \A c \in Between(origin, t) : c \notin DOMAIN pieces
              /\ FreeFor(heap[self].color, t)

\* the last move_piece call failed and the board holds a rook with a piece
\* strictly between it and a cell on one of its axes, and an enemy it can take
C8_Witness ==
    /\ ret = Ret("move_piece", FALSE)
    /\ \E p \in Stored("R"), t \in Cells :
           /\ OneAxis(Delta(p, t))
           /\ \E c \in Between(p, t) : c \in DOMAIN pieces
           /\ ~is_valid_move(pieces[p], t)
    /\ \E p \in Stored("R"), t \in Cells :
           EnemyOf(heap[pieces[p]].color, t) /\ is_valid_move(pieces[p], t)

\* C9: a bishop's is_valid_move accepts an in-bounds destination iff the delta
\* is a planar diagonal (two axes with equal non-zero absolute delta, the third
\* zero) or a space diagonal (three axes with equal non-zero absolute delta),
\* every cell strictly between origin and destination is unoccupied, and the
\* destination is empty or holds a piece of the opposite colour
C9_BishopRule ==
    \A p \in Stored("B"), t \in Cells :
        LET self == pieces[p]
            origin == heap[self].position
        IN  is_valid_move(self, t) <=>
              /\ Diagonal(Delta(origin, t))
              /\ \A c \in Between(origin, t) : c \notin DOMAIN pieces
              /\ FreeFor(heap[self].color, t)

\* the last move_piece call failed and the board holds a bishop with a piece
\* strictly between it and a cell on one of its diagonals, while a space
\* diagonal of two steps is open to it
C9_Witness ==
    /\ ret = Ret("move_piece", FALSE)
    /\ \E p \in Stored("B"), t \in Cells :
           /\ Diagonal(Delta(p, t))
           /\ \E c \in Between(p, t) : c \in DOMAIN pieces
           /\ ~is_valid_move(pieces[p], t)
    /\ \E p \in Stored("B"), t \in Cells :
           /\ Cardinality(NonZeroAxes(Delta(p, t))) = 3
           /\ Between(p, t) # {}
           /\ is_valid_move(pieces[p], t)

\* the absolute axis deltas are 0, 1 and 2 in some order
KnightShape(d) ==
    \E i \in 1 .. 3, j \in 1 .. 3, k \in 1 .. 3 :
        Abs(d[i]) = 0 /\ Abs(d[j]) = 1 /\ Abs(d[k]) = 2

C11_KingRule ==
    \A p \in Stored("K") :
        LET self == pieces[p]
            origin == heap[self].position
            accepted == {t \in Cells : is_valid_move(self, t)}
            interior == \A i \in 1 .. 3 : 0 < origin[i] /\ origin[i] < <<nx, ny, nz>>[i] - 1
        IN  /\ \A t \in Cells :
                   is_valid_move(self, t) <=>
                     /\ \A i \in 1 .. 3 : Abs(Delta(origin, t)[i]) <= 1
                     /\ NonZeroAxes(Delta(origin, t)) # {}
                     /\ FreeFor(heap[self].color, t)
            /\ (interior /\ DOMAIN pieces = {p}) => Cardinality(accepted) = 26

\* the king has moved to an interior cell where it stands alone
C11_Witness ==
    /\ ret = Ret("move_piece", TRUE)
    /\ \E p \in Stored("K") :
           /\ DOMAIN pieces = {p}
           /\ \A i \in 1 .. 3 : 0 < p[i] /\ p[i] < <<nx, ny, nz>>[i] - 1

\* C13: a pawn's forward step, delta (dir, 0, 0), onto an occupied cell is
\* rejected whatever the occupant's colour, and a pawn's diagonal step (dx = dir,
\* one of |dy|, |dz| equal to 1 and the other 0) onto an empty cell is rejected
C13_PawnBlockedAndEmptyDiagonal ==
    \A p \in Stored("P"), t \in Cells :
        LET self == pieces[p]
            dir == IF heap[self].color = "W" THEN 1 ELSE -1
            d == Delta(heap[self].position, t)
        IN  /\ (d = <<dir, 0, 0>> /\ t \in DOMAIN pieces) => ~is_valid_move(self, t)
            /\ ( /\ d[1] = dir
                 /\ Abs(d[2]) + Abs(d[3]) = 1
                 /\ t \notin DOMAIN pieces ) => ~is_valid_move(self, t)

\* a move_piece call has failed on a board where a pawn has an enemy piece on the
\* cell straight ahead of it and empty cells diagonally ahead
C13_Witness ==
    /\ ret = Ret("move_piece", FALSE)
    /\ \E p \in Stored("P") :
           LET dir == IF heap[pieces[p]].color = "W" THEN 1 ELSE -1
           IN  /\ EnemyOf(heap[pieces[p]].color, <<p[1] + dir, p[2], p[3]>>)
               /\ \E t \in Cells \ DOMAIN pieces :
                      Delta(p, t)[1] = dir /\ Abs(Delta(p, t)[2]) + Abs(Delta(p, t)[3]) = 1

\* C14: whatever its class, a piece's is_valid_move never accepts a destination
\* that holds a piece of its own colour; hence a successful move_piece never
\* takes a piece of the mover's colour out of the dict
C14_NoOwnColourCapture ==
    /\ \A p \in DOMAIN pieces, t \in Positions :
           (t \in DOMAIN pieces /\ heap[pieces[t]].color = heap[pieces[p]].color)
               => ~is_valid_move(pieces[p], t)
    /\ \A f \in DOMAIN pieces, t \in Positions :
           LET r == move_piece(f, t)
               before == {pieces[k] : k \in DOMAIN pieces}
               after == {r.pieces[k] : k \in DOMAIN r.pieces}
           IN  r.ok => \A gone \in before \ after :
                           heap[gone].color # heap[pieces[f]].color

\* a move_piece call has failed on a board where a piece stands a legal step
\* away from a piece of its own colour: the shape and the path allow the move,
\* the colour on the destination does not
C14_Witness ==
    /\ ret = Ret("move_piece", FALSE)
    /\ \E p \in DOMAIN pieces, t \in DOMAIN pieces :
           /\ t # p
           /\ heap[pieces[t]].color = heap[pieces[p]].color
           /\ heap[pieces[p]].kind \in {"R", "B", "Q", "N", "K"}
           /\ CASE heap[pieces[p]].kind = "R" -> OneAxis(Delta(p, t))
                [] heap[pieces[p]].kind = "B" -> Diagonal(Delta(p, t))
                [] heap[pieces[p]].kind = "Q" -> OneAxis(Delta(p, t)) \/ Diagonal(Delta(p, t))
                [] heap[pieces[p]].kind = "N" -> KnightShape(Delta(p, t))
                [] heap[pieces[p]].kind = "K" -> Max3(Abs(Delta(p, t)[1]), Abs(Delta(p, t)[2]), Abs(Delta(p, t)[3])) = 1
           /\ Between(p, t) \cap DOMAIN pieces = {}

\* the classes that slide
Sliding == {"R", "B", "Q"}

\* C12: a rook, bishop or queen rejects every destination that has an occupied
\* cell strictly between it and the piece's origin on the straight or diagonal
\* line through them, whatever the destination holds; and so no successful
\* move_piece of such a piece goes from its cell to its destination over an
\* occupied cell
C12_NoSlideOverOccupied ==
    /\ \A p \in DOMAIN pieces, t \in Cells :
           LET self == pieces[p]
               origin == heap[self].position
           IN  ( /\ heap[self].kind \in Sliding
                 /\ OneAxis(Delta(origin, t)) \/ Diagonal(Delta(origin, t))
                 /\ Between(origin, t) \cap DOMAIN pieces # {} )
               => ~is_valid_move(self, t)
    /\ \A f \in DOMAIN pieces, t \in Cells :
           ( /\ heap[pieces[f]].kind \in Sliding
             /\ OneAxis(Delta(f, t)) \/ Diagonal(Delta(f, t))
             /\ move_piece(f, t).ok )
           => Between(f, t) \cap DOMAIN pieces = {}

\* C15: is_game_over(color) returns True iff the dict stores no piece that is
\* of that colour and of class King; pieces of other classes or of the other
\* colour do not enter the result
C15_GameOverIffNoKing ==
    \A c \in Colors :
        is_game_over([heap |-> heap, pieces |-> pieces], c) <=> (CountOf("K", c) = 0)

\* is_game_over has returned True on a board that holds a king and a piece of
\* the other colour that is no king: the question was about the second colour
C15_Witness ==
    /\ ret = Ret("is_game_over", TRUE)
    /\ \E k \in Stored("K"), p \in DOMAIN pieces :
           /\ heap[pieces[p]].color # heap[pieces[k]].color
           /\ heap[pieces[p]].kind # "K"

\* the objects a set_piece call may be handed: those created so far, or None
Handles == 0 .. Len(heap)
\* get_piece on the dict a call has left
GetIn(d, position) == IF position \in DOMAIN d THEN d[position] ELSE None

\* C16: after set_piece(p, piece) with p in bounds and a piece given,
\* get_piece(p) is that piece, whatever p held; after set_piece(p, None),
\* get_piece(p) is None; either way every position other than p holds what it
\* held
C16_SetThenGet ==
    \A p \in Cells, piece \in Handles :
        LET after == set_piece(Containers, p, piece).pieces
        IN  /\ GetIn(after, p) = piece
            /\ \A q \in Positions \ {p} : GetIn(after, q) = get_piece(q)

\* set_piece has stored or cleared a cell and the dict holds two keys, one of
\* them with an object of the heap that another object could replace
C16_Witness ==
    /\ ret = Ret("set_piece", TRUE)
    /\ Cardinality(DOMAIN pieces) = 2
    /\ Len(heap) = 2

\* the triples around the board: each axis from -1 to its dimension
Box == (-1 .. nx) \X (-1 .. ny) \X (-1 .. nz)

\* C17: set_piece with a position out of bounds (an axis negative or at least
\* its dimension) leaves the dict (and the grid) as they were, with a piece and
\* with None
C17_SetOutOfBoundsIsNoOp ==
    \A p \in Box \ Cells, piece \in Handles :
        set_piece(Containers, p, piece) = Containers

\* set_piece has been called with a position out of bounds on a board that
\* holds a piece
C17_Witness ==
    /\ ret = Ret("set_piece", FALSE)
    /\ DOMAIN pieces # {}

\* C18: is_within_bounds(p) holds iff 0 <= x < nx, 0 <= y < ny and 0 <= z < nz
C18_WithinBoundsIff ==
    \A p \in Box :
        is_within_bounds(p) <=> \A i \in 1 .. 3 : 0 <= p[i] /\ p[i] < <<nx, ny, nz>>[i]

\* is_within_bounds has just answered False
C18_Witness ==
    ret = Ret("is_within_bounds", FALSE)

\* C19: in every state that set_piece and move_piece calls reach, every key of
\* the dict is within bounds and maps to one piece
C19_KeysWithinBounds ==
    \A p \in DOMAIN pieces :
        /\ 0 <= p[1] /\ p[1] < nx
        /\ 0 <= p[2] /\ p[2] < ny
        /\ 0 <= p[3] /\ p[3] < nz
        /\ pieces[p] \in 1 .. Len(heap)

\* the dict holds one piece under two keys and another under a third, and a
\* move_piece call has just succeeded
C19_Witness ==
    /\ ret = Ret("move_piece", TRUE)
    /\ Cardinality(DOMAIN pieces) = MaxKeys
    /\ \E p \in DOMAIN pieces, q \in DOMAIN pieces : p # q /\ pieces[p] = pieces[q]

\* the query operations
QueryOps == {"is_within_bounds", "get_piece", "is_valid_move", "is_clear_path",
             "is_game_over"}

\* every answer the five queries give in the current state
Answers ==
    [within |-> [p \in Positions |-> is_within_bounds(p)],
     get    |-> [p \in Positions |-> get_piece(p)],
     valid  |-> [i \in 1 .. Len(heap) |-> [t \in Positions |-> is_valid_move(i, t)]],
     clear  |-> [f \in Cells |-> [t \in Cells |-> is_clear_path(f, t)]],
     over   |-> [c \in Colors |-> is_game_over([heap |-> heap, pieces |-> pieces], c)]]

\* C20: a call of is_within_bounds, get_piece, is_valid_move, is_clear_path or
\* is_game_over changes neither the dict nor the grid nor any piece's colour or
\* cached position, and every query asked again after it gives the answer it
\* gave before
C20_QueriesArePure ==
    [][ret'.op \in QueryOps =>
           /\ pieces' = pieces
           /\ board' = board
           /\ heap' = heap
           /\ Answers' = Answers]_vars

\* is_valid_move has just accepted a destination on a board that holds a piece
C20_Witness ==
    /\ ret = Ret("is_valid_move", TRUE)
    /\ DOMAIN pieces # {}

\* the tags create_piece is asked for
Tags == PieceTypes \cup BadTags

\* C21: create_piece raises, and returns no piece, for every type tag outside
\* {'P','R','N','B','Q','K'}, and for each of the six tags returns a piece of
\* that tag's class with the colour and the position it was given
C21_FactoryRaisesOnUnknownTag ==
    \A t \in Tags, c \in Colors, p \in Cells :
        /\ create_piece_raises(t) <=> t \notin {"P", "R", "N", "B", "Q", "K"}
        /\ ~create_piece_raises(t) =>
               /\ create_piece(t, c, p).kind = t
               /\ create_piece(t, c, p).color = c
               /\ create_piece(t, c, p).position = p

\* create_piece has raised after an object had been created
C21_Witness ==
    /\ ret = Ret("create_piece", FALSE)
    /\ Len(heap) = 1

\* the player to move in a turn, and the other player
Mover(n) == IF n % 2 = 0 THEN "W" ELSE "B"
Other(c) == IF c = "W" THEN "B" ELSE "W"
\* the steps that are a pass of make_move's loop
Attempt == {"make_move", "parse_move"}

\* C22: play_game starts with W to move and the player to move alternates: the
\* turn passes to the other player only by a successful move of a piece of the
\* player to move, and an attempt that names an empty source, a piece of the
\* other colour or a rejected destination, or that is malformed, leaves the
\* board and the player to move as they were
C22_TurnsAlternate ==
    /\ turn = 0
    /\ [][ret'.op \in Attempt =>
             IF ret' = Ret("make_move", TRUE)
             THEN /\ \E f \in DOMAIN pieces, t \in Cells :
                         /\ heap[pieces[f]].color = Mover(turn)
                         /\ f \notin DOMAIN pieces'
                         /\ t \in DOMAIN pieces'
                         /\ pieces'[t] = pieces[f]
                  /\ over' \/ turn' = turn + 1
             ELSE /\ pieces' = pieces
                  /\ board' = board
                  /\ heap' = heap
                  /\ turn' = turn
                  /\ over' = over]_vars

\* white, black and white have moved and black has just typed a malformed line
C22_Witness ==
    /\ ret = Ret("parse_move", FALSE)
    /\ turn = 3

\* C23: play_game ends exactly after a successful move that leaves the
\* opponent of the mover no king in the dict, with the mover as the winner;
\* while the opponent has a king left the game goes on, the opponent to move
C23_GameEndsWithLastKing ==
    [][ret'.op \in Attempt =>
          \E opponent \in {Other(Mover(turn))} :
              /\ over' <=> ( /\ ret' = Ret("make_move", TRUE)
                             /\ CountOf("K", opponent)' = 0 )
              /\ over' => turn' = turn
              /\ (ret' = Ret("make_move", TRUE) /\ ~over') => turn' = turn + 1]_vars

\* the game has ended: black has no king, white has, and white was to move
C23_Witness ==
    /\ over
    /\ ret = Ret("make_move", TRUE)
    /\ CountOf("K", "B") = 0
    /\ CountOf("K", "W") > 0
    /\ Mover(turn) = "W"

\* C24: between two cells of the board whose delta has one, two or three
\* non-zero axes of equal magnitude, is_clear_path is true iff no cell strictly
\* between them is occupied: true when they are adjacent, and whatever stands
\* on the two cells themselves
C24_ClearPathIffInteriorEmpty ==
    \A f \in Cells, t \in Cells :
        (f # t /\ SameMagnitude(Delta(f, t))) =>
            /\ is_clear_path(f, t) <=> (Between(f, t) \cap DOMAIN pieces = {})
            /\ Between(f, t) = {} => is_clear_path(f, t)

\* on the populated default board: the file between two facing pawns is clear
\* along its four empty cells, and a rook's file is blocked by the pawn before it
C24_Witness ==
    /\ {<<1, 0, 0>>, <<6, 0, 0>>} \subseteq DOMAIN pieces
    /\ Cardinality(Between(<<1, 0, 0>>, <<6, 0, 0>>)) = 4
    /\ is_clear_path(<<1, 0, 0>>, <<6, 0, 0>>)
    /\ <<1, 0, 0>> \in Between(<<0, 0, 0>>, <<2, 0, 0>>)
    /\ <<2, 0, 0>> \notin DOMAIN pieces
    /\ ~is_clear_path(<<0, 0, 0>>, <<2, 0, 0>>)
    /\ is_clear_path(<<0, 0, 0>>, <<1, 0, 0>>)

\* the cells is_clear_path looks at: those of its loop up to the first that is
\* out of bounds or occupied
Inspected(from_pos, to_pos) ==
    LET dx == to_pos[1] - from_pos[1]
        dy == to_pos[2] - from_pos[2]
        dz == to_pos[3] - from_pos[3]
        steps == Max3(Abs(dx), Abs(dy), Abs(dz))
        passed(step) == /\ is_within_bounds(Visited(from_pos, to_pos, step))
                        /\ get_piece(Visited(from_pos, to_pos, step)) = None
    IN  IF steps = 0 \/ ~ShapeOk(dx, dy, dz) THEN {}
        ELSE { Visited(from_pos, to_pos, step) :
                   step \in {k \in 1 .. steps - 1 : \A j \in 1 .. k - 1 : passed(j)} }

\* C25: between two cells of the board is_clear_path looks at no more than
\* max(|dx|, |dy|, |dz|) - 1 cells, and every cell it looks at is in bounds
C25_InspectedCellsInBounds ==
    \A f \in Cells, t \in Cells :
        /\ Cardinality(Inspected(f, t)) < Max3(nx, ny, nz)
        /\ f # t => Cardinality(Inspected(f, t)) <=
                        Max3(Abs(t[1] - f[1]), Abs(t[2] - f[2]), Abs(t[3] - f[3])) - 1
        /\ \A c \in Inspected(f, t) : is_within_bounds(c)

\* the number of keys of a dict, and of those that hold a King of a colour
PieceCount(d) == Cardinality(DOMAIN d)
KingCount(d, h, color) ==
    Cardinality({p \in DOMAIN d : h[d[p]].kind = "K" /\ h[d[p]].color = color})

\* C26: a successful move_piece leaves the number of pieces in the dict as it
\* was when the destination was empty and one lower when it was occupied, a
\* failed one leaves it as it was, and no move_piece raises the number of
\* kings of either colour
C26_MoveNeverAddsPieces ==
    \A f \in Positions, t \in Positions :
        \E r \in {move_piece(f, t)} :
            /\ r.ok => PieceCount(r.pieces) =
                         PieceCount(pieces) - (IF t \in DOMAIN pieces THEN 1 ELSE 0)
            /\ ~r.ok => PieceCount(r.pieces) = PieceCount(pieces)
            /\ PieceCount(r.pieces) <= PieceCount(pieces)
            /\ \A c \in Colors : KingCount(r.pieces, r.heap, c) <= KingCount(pieces, heap, c)

\* a capture has just happened: two objects exist, the dict holds one of them,
\* and the other one was made for the cell the mover now stands on
C26_Witness ==
    /\ ret = Ret("move_piece", TRUE)
    /\ Len(heap) = 2
    /\ \E p \in Cells, i \in 1 .. 2 :
           /\ DOMAIN pieces = {p}
           /\ heap[pieces[p]].position = p
           /\ i # pieces[p]
           /\ heap[i].position = p
           /\ heap[i].color # heap[pieces[p]].color

\* C28: the grid and the dict agree on every cell of the board: the grid's
\* entry is the piece the dict maps the cell to, and None exactly when the
\* cell is no key of the dict
C28_GridAgreesWithDict ==
    /\ DOMAIN board = Cells
    /\ \A p \in Cells :
           /\ board[p] = get_piece(p)
           /\ board[p] = None <=> p \notin DOMAIN pieces

\* after set_piece calls and a move: an occupied cell and a vacated one
C28_Witness ==
    /\ ret = Ret("move_piece", TRUE)
    /\ \E p \in Cells, q \in Cells :
           /\ board[p] # None
           /\ heap[board[p]].position = p
           /\ board[q] = None
           /\ Cardinality(DOMAIN pieces) = 2

\* C27: on the board initialize_board has populated, with move_piece calls
\* only, every piece of the dict is stored under one key and no other, and
\* its cached position is that key
C27_OneKeyAndItIsThePosition ==
    heap # <<>> =>
        \A p \in DOMAIN pieces :
            /\ heap[pieces[p]].position = p
            /\ \A q \in DOMAIN pieces : pieces[q] = pieces[p] => q = p

\* both players have moved a piece on the populated default board
C27_Witness ==
    /\ ret = Ret("make_move", TRUE)
    /\ turn = MaxTurns
    /\ \E p \in DOMAIN pieces : heap[pieces[p]].position = p /\ p[1] \in 2 .. 5

\* C29: whenever make_move has found a piece of the player to move at from_pos
\* and is_valid_move has accepted to_pos, the move_piece that follows returns
\* True: "Move failed." is never printed
C29_ValidMoveNeverFails ==
    \A f \in Positions, t \in Positions :
        ( /\ get_piece(f) # None
          /\ heap[get_piece(f)].color = Mover(turn)
          /\ is_valid_move(get_piece(f), t) ) => move_piece(f, t).ok

\* the player to move has a capture among the accepted moves, after a move
C29_Witness ==
    /\ ret = Ret("make_move", TRUE)
    /\ \E f \in DOMAIN pieces, t \in DOMAIN pieces :
           /\ heap[pieces[f]].color = Mover(turn)
           /\ is_valid_move(pieces[f], t)
           /\ move_piece(f, t).ok

\* the direction of a pawn, and the x coordinate an object has cached
Dir(color) == IF color = "W" THEN 1 ELSE -1
XOf(h, i) == h[i].position[1]

\* C30: a pawn accepts only destinations whose x is its own plus dir (+1 for
\* white, -1 for black) and a successful move_piece takes it there, so its x
\* only ever moves that way; a white pawn at x = nx - 1 and a black pawn at
\* x = 0 accept no destination
C30_PawnsOnlyAdvance ==
    /\ [](\A p \in Stored("P") :
            \E self \in {pieces[p]} :
                /\ \A t \in Positions :
                       /\ is_valid_move(self, t) => t[1] = XOf(heap, self) + Dir(heap[self].color)
                       /\ move_piece(p, t).ok =>
                              XOf(move_piece(p, t).heap, self) =
                                  XOf(heap, self) + Dir(heap[self].color)
                /\ ( \/ heap[self].color = "W" /\ XOf(heap, self) = nx - 1
                     \/ heap[self].color = "B" /\ XOf(heap, self) = 0 ) =>
                       \A t \in Positions : ~is_valid_move(self, t))
    /\ [][\A i \in DOMAIN heap :
              heap[i].kind = "P" =>
                  \/ XOf(heap', i) = XOf(heap, i)
                  \/ /\ ret' = Ret("move_piece", TRUE)
                     /\ XOf(heap', i) = XOf(heap, i) + Dir(heap[i].color)]_vars

\* a white pawn has moved up to the last layer, where nothing is accepted
C30_Witness ==
    /\ ret = Ret("move_piece", TRUE)
    /\ \E p \in Stored("P") :
           /\ heap[pieces[p]].color = "W"
           /\ heap[pieces[p]].position = p
           /\ p[1] = nx - 1
           /\ \A t \in Positions : ~is_valid_move(pieces[p], t)

====
